---------------------------- MODULE Spec2Model ----------------------------
(***************************************************************************)
(* Model of netter::ipv4::valid_ipv4 (src/libs/netter/src/lib.rs).         *)
(*                                                                         *)
(* A character is its Unicode code point, so that the comparisons the code *)
(* makes on chars (block[0] > '2') are comparisons of numbers here, and    *)
(* str::len() is the number of UTF-8 bytes, not of characters.  One call   *)
(* of valid_ipv4 is one behaviour: Call draws the argument ipstr, the      *)
(* length test runs, then one action runs per iteration of the for loop.   *)
(***************************************************************************)
EXTENDS Integers, Sequences, FiniteSets

VARIABLES ipstr, pc, idx, block_count, block, pos, result

vars == <<ipstr, pc, idx, block_count, block, pos, result>>

---------------------------------------------------------------------------
(* Characters the code names or tests for. *)

NUL == 0
Dot == 46
Zero == 48
Nine == 57
Two == 50
Five == 53

MinLen == 7
MaxLen == 15
BlockLen == 3
MaxBlocks == 4

(* Bound of the model: the largest number of dot-separated parts of an     *)
(* input of the grid family.                                               *)
MaxParts == 5

---------------------------------------------------------------------------
(* The outcomes of a call. *)

Running == "running"
OkTrue == "Ok(true)"
OkFalse == "Ok(false)"
Err == "Err(InvalidAddrErr)"
Panic == "panic"

---------------------------------------------------------------------------
(* Pure helpers, as the code (and the standard library it calls) computes  *)
(* them.                                                                   *)

(* char::len_utf8 *)
Utf8Len(ch) ==
    IF ch < 128 THEN 1 ELSE IF ch < 2048 THEN 2 ELSE IF ch < 65536 THEN 3 ELSE 4

(* str::len: the length in bytes *)
RECURSIVE StrLen(_)
StrLen(s) == IF s = <<>> THEN 0 ELSE Utf8Len(Head(s)) + StrLen(Tail(s))

(* char::is_ascii_digit *)
is_ascii_digit(ch) == Zero <= ch /\ ch <= Nine

(* Faulty variants of line 25: the upper test off by one, and the lower    *)
(* test forgotten.                                                         *)
LenOutOfRange_UpperOffByOne(s) == StrLen(s) >= MaxLen \/ StrLen(s) < MinLen

LenOutOfRange_NoLowerTest(s) == StrLen(s) > MaxLen

(* line 25 *)
LenOutOfRange(s) == StrLen(s) > MaxLen \/ StrLen(s) < MinLen

(* Faulty variant of line 42: a digit test that only looks above '9'. *)
IllegalChar_OnlyAboveNine(ch) == ch > Nine /\ ch # Dot

(* line 42 *)
IllegalChar(ch) == ~is_ascii_digit(ch) /\ ch # Dot

(* Faulty variant of line 50: the fifth separator passes, the sixth fails. *)
TooManyBlocks_OneLate(bc) == bc > MaxBlocks

(* line 50 *)
TooManyBlocks(bc) == bc = MaxBlocks

(* line 56; block[0] of the code is b[1] here *)
EmptyBlock(b) == b[1] = NUL

(* Faulty variant of lines 62-77: the test of the third digit without     *)
(* block[1] == '5' before it.                                             *)
RangeCheckFails_UnguardedUnits(b) ==
    b[3] # NUL /\
        (\/ b[1] > Two
         \/ (b[1] = Two /\ (b[2] > Five \/ b[3] > Five)))

(* lines 62-77: true when the separator's range check returns Err *)
RangeCheckFails(b) ==
    b[3] # NUL /\
        (\/ b[1] > Two
         \/ (b[1] = Two /\ (b[2] > Five \/ (b[2] = Five /\ b[3] > Five))))

(* Faulty variant of line 89: "position at character 4" taken as pos == 4. *)
BlockFull_AtFour(p) == p = BlockLen + 1

(* line 89 *)
BlockFull(p) == p = BlockLen

(* lines 35 and 83: ['\0'; 3] *)
FreshBlock == [k \in 1..BlockLen |-> NUL]

---------------------------------------------------------------------------
(* The arguments the call is made with.  A part is a run of characters     *)
(* without a separator, written as the tuple of its digits; an input is    *)
(* parts joined by the separator.                                          *)

DigitChars(ds) == [k \in 1..Len(ds) |-> Zero + ds[k]]

RECURSIVE Join(_)
Join(ps) ==
    IF Len(ps) = 0 THEN <<>>
    ELSE IF Len(ps) = 1 THEN ps[1]
    ELSE ps[1] \o <<Dot>> \o Join(Tail(ps))

Addr(dps) == Join([k \in 1..Len(dps) |-> DigitChars(dps[k])])

(* The addresses of net_tests::test_valid_ip. *)
TestValids ==
    { Addr(<< <<1,2,7>>, <<0>>, <<0>>, <<1>> >>),
      Addr(<< <<1,9,2>>, <<1,6,8>>, <<0>>, <<9>> >>),
      Addr(<< <<1,0>>, <<0>>, <<0>>, <<1>> >>),
      Addr(<< <<2,5,5>>, <<2,5,5>>, <<2,5,5>>, <<2,5,5>> >>),
      Addr(<< <<2>>, <<2,5,5>>, <<9,9>>, <<2,5,4>> >>) }

TestInvalids ==
    { Addr(<< <<2,9,5>>, <<3,4>>, <<1>>, <<5>>, <<>> >>),
      Addr(<< <<2,1,5>>, <<0>> >>),
      Addr(<< <<2,1,5>> >>),
      Addr(<< <<>>, <<1,0>>, <<2,5,6>>, <<0>>, <<9>> >>),
      Addr(<< <<3,6,5>> >>),
      Addr(<< <<3,6,5>>, <<1>>, <<0>>, <<9>> >>),
      Addr(<< <<1,0>>, <<2,5,6>>, <<0>>, <<1>> >>),
      Addr(<< <<1,0>>, <<3,5,8>>, <<0>>, <<1>> >>) }

(* Grid family: every way to join 1..MaxParts parts drawn from GridParts:  *)
(* the empty part, one digit, a leading zero, the largest octet, the       *)
(* smallest number above it, and a part of four digits.                    *)
GridParts ==
    { <<>>, <<7>>, <<0,1,2>>, <<2,5,5>>, <<2,5,6>>, <<1,2,3,4>> }

GridInputs(n) == { Addr(ps) : ps \in [1..n -> GridParts] }

(* Sweep family: every part of three digits, in each of the four places of *)
(* 1.1.1.1, and closed by a fifth separator.                               *)
Digits == 0..9

ThreeDigitParts == { <<d0, d1, d2>> : d0 \in Digits, d1 \in Digits, d2 \in Digits }

SweepInputs ==
    { Addr([ [k \in 1..MaxBlocks |-> <<1>>] EXCEPT ![at] = p ]) :
          at \in 1..MaxBlocks, p \in ThreeDigitParts }
    \cup { Addr(<< <<1>>, <<1>>, <<1>>, p, <<>> >>) : p \in ThreeDigitParts }

(* Character family: one character of an address replaced by one that is   *)
(* neither a digit nor the separator: '\0', '/' (just below '0'), ':'      *)
(* (just above '9'), 'x', and U+00E9, which takes two bytes in UTF-8.      *)
OddChars == { NUL, Zero - 1, Nine + 1, 120, 233 }

OddBases ==
    { Addr(<< <<1>>, <<1>>, <<1,1>> >>),
      Addr(<< <<1,2>>, <<3,4>>, <<5,6>>, <<7,8>> >>),
      Addr(<< <<2,5,5>>, <<2,5,5>>, <<2,5,5>>, <<2,5,5>> >>) }

OddInputs ==
    UNION { { [s EXCEPT ![at] = o] : at \in 1..Len(s), o \in OddChars } : s \in OddBases }

(* Further inputs: the shortest address, a trailing separator, three      *)
(* octets, and leading zeros before one and before two digits.            *)
NamedInputs ==
    { Addr(<< <<1>>, <<1>>, <<1>>, <<1>> >>),
      Addr(<< <<1,0>>, <<1,0>>, <<1,0>>, <<>> >>),
      Addr(<< <<2,1,5>>, <<0>>, <<0>> >>),
      Addr(<< <<0,0,1>>, <<0,1,2>>, <<0>>, <<1>> >>),
      Addr(<< <<0,1>>, <<0,2>>, <<0,3>>, <<0,4>> >>) }

ListedInputs ==
    TestValids \cup TestInvalids \cup SweepInputs \cup OddInputs \cup NamedInputs

---------------------------------------------------------------------------
(* The call.  pc is the place in valid_ipv4: "idle" before the call,       *)
(* "start" before the length test of line 25, "scan" in the for loop of    *)
(* line 40, "done" once the function has returned (or panicked).  idx      *)
(* counts the characters the loop has taken from ipstr.chars().            *)

Init ==
    /\ ipstr = <<>>
    /\ pc = "idle"
    /\ idx = 0
    /\ block_count = 1
    /\ block = FreshBlock
    /\ pos = 0
    /\ result = Running

Return(r) ==
    /\ pc' = "done"
    /\ result' = r
    /\ UNCHANGED <<ipstr, idx, block_count, block, pos>>

(* line 20: valid_ipv4 is called with an argument *)
Call ==
    /\ pc = "idle"
    /\ \/ \E s \in ListedInputs : ipstr' = s
       \/ \E n \in 1..MaxParts : \E s \in GridInputs(n) : ipstr' = s
    /\ pc' = "start"
    /\ UNCHANGED <<idx, block_count, block, pos, result>>

(* lines 25-36 *)
LengthCheck ==
    /\ pc = "start"
    /\ IF LenOutOfRange(ipstr)
       THEN Return(Err)
       ELSE /\ pc' = "scan"
            /\ block_count' = 1
            /\ block' = FreshBlock
            /\ pos' = 0
            /\ UNCHANGED <<ipstr, idx, result>>

(* The character the loop takes next. *)
c == ipstr[idx + 1]

HasNext == pc = "scan" /\ idx < Len(ipstr)

(* lines 42-44 *)
BadChar ==
    /\ HasNext
    /\ IllegalChar(c)
    /\ Return(Err)

(* lines 48-86 *)
Separator ==
    /\ HasNext
    /\ ~IllegalChar(c)
    /\ c = Dot
    /\ IF TooManyBlocks(block_count) THEN Return(Err)
       ELSE IF EmptyBlock(block) THEN Return(Err)
       ELSE IF RangeCheckFails(block) THEN Return(Err)
       ELSE /\ block_count' = block_count + 1
            /\ block' = FreshBlock
            /\ pos' = 0
            /\ idx' = idx + 1
            /\ UNCHANGED <<ipstr, pc, result>>

(* lines 89-96; block[pos] = c with pos >= 3 is an index out of bounds,    *)
(* which panics                                                            *)
Digit ==
    /\ HasNext
    /\ ~IllegalChar(c)
    /\ c # Dot
    /\ IF BlockFull(pos) THEN Return(Err)
       ELSE IF pos >= BlockLen THEN Return(Panic)
       ELSE /\ block' = [block EXCEPT ![pos + 1] = c]
            /\ pos' = pos + 1
            /\ idx' = idx + 1
            /\ UNCHANGED <<ipstr, pc, block_count, result>>

(* lines 97-99: the iterator is exhausted *)
Finish ==
    /\ pc = "scan"
    /\ idx = Len(ipstr)
    /\ Return(OkTrue)

Next == Call \/ LengthCheck \/ BadChar \/ Separator \/ Digit \/ Finish

Spec == Init /\ [][Next]_vars

---------------------------------------------------------------------------
(* What the claims say of an input, computed from the text of the input    *)
(* alone (never from the scanner's variables).                             *)

DotPlaces(s) == { k \in 1..Len(s) : s[k] = Dot }

NumDots(s) == Cardinality(DotPlaces(s))

(* The parts of s: the runs of characters between separators, in order.    *)
RECURSIVE Parts(_)
Parts(s) ==
    IF DotPlaces(s) = {} THEN <<s>>
    ELSE LET d == CHOOSE k \in DotPlaces(s) : \A j \in DotPlaces(s) : k <= j
         IN  <<SubSeq(s, 1, d - 1)>> \o Parts(SubSeq(s, d + 1, Len(s)))

IsNumber(p) == Len(p) > 0 /\ \A k \in 1..Len(p) : p[k] \in Zero..Nine

(* The number a part of digits denotes. *)
RECURSIVE Value(_)
Value(p) ==
    IF Len(p) = 0 THEN 0
    ELSE 10 * Value(SubSeq(p, 1, Len(p) - 1)) + (p[Len(p)] - Zero)

LeadingZero(p) == Len(p) > 1 /\ p[1] = Zero

(* Four octets in [0,255], each written without a leading zero. *)
WellFormedAddress(s) ==
    LET ps == Parts(s)
    IN  /\ Len(ps) = MaxBlocks
        /\ \A k \in 1..Len(ps) :
              IsNumber(ps[k]) /\ ~LeadingZero(ps[k]) /\ Value(ps[k]) <= 255

HasOctetAbove255(s) ==
    LET ps == Parts(s)
    IN  \E k \in 1..Len(ps) : IsNumber(ps[k]) /\ Value(ps[k]) > 255

HasEmptyOctet(s) ==
    LET ps == Parts(s) IN \E k \in 1..Len(ps) : ps[k] = <<>>

HasLeadingZeroOctet(s) ==
    LET ps == Parts(s)
    IN  \E k \in 1..Len(ps) : IsNumber(ps[k]) /\ LeadingZero(ps[k])

Returned == pc = "done"

(* The character at which the scan stopped, when it stopped inside the     *)
(* loop: a return leaves idx at the character that caused it.              *)
StoppedAtDot == Returned /\ idx < Len(ipstr) /\ ipstr[idx + 1] = Dot

StoppedAtDigit == Returned /\ idx < Len(ipstr) /\ is_ascii_digit(ipstr[idx + 1])

(* The number the three digits of the block denote. *)
BlockValue(b) == 100 * (b[1] - Zero) + 10 * (b[2] - Zero) + (b[3] - Zero)

---------------------------------------------------------------------------
(* C1. Completeness: an input of exactly four octets, each in [0,255] and  *)
(* written without a leading zero, joined by single separators, is never   *)
(* rejected, and the call on it returns Ok(true).                          *)
C1_Completeness ==
    WellFormedAddress(ipstr) =>
        /\ result \in {Running, OkTrue}
        /\ Returned => result = OkTrue

(* A well-formed address with an octet of three digits starting with '2'   *)
(* has been accepted.                                                      *)
C1_Witness ==
    /\ Returned
    /\ result = OkTrue
    /\ WellFormedAddress(ipstr)
    /\ \E k \in 1..MaxBlocks : Len(Parts(ipstr)[k]) = BlockLen /\ Parts(ipstr)[k][1] = Two

(* C2. Octet range soundness: an input in which some octet, in any         *)
(* position, the last one included, denotes a number above 255 is rejected *)
(* with Err(InvalidAddrErr).                                               *)
C2_OctetRangeSoundness ==
    (Returned /\ HasOctetAbove255(ipstr)) => result = Err

(* C3. Too few octets: an input with fewer than three separators (fewer    *)
(* than four octets) is rejected with Err(InvalidAddrErr).                 *)
C3_TooFewOctets ==
    (Returned /\ NumDots(ipstr) < MaxBlocks - 1) => result = Err

(* C4. Length fast-reject: an input shorter than 7 or longer than 15       *)
(* characters is rejected with Err(InvalidAddrErr) whatever its            *)
(* characters are; when its length in bytes is out of that range it is     *)
(* rejected by the first test, before any character is scanned.            *)
C4_LengthFastReject ==
    /\ (Returned /\ (Len(ipstr) < MinLen \/ Len(ipstr) > MaxLen)) => result = Err
    /\ (pc \in {"scan", "done"} /\ (StrLen(ipstr) < MinLen \/ StrLen(ipstr) > MaxLen)) =>
           (Returned /\ result = Err /\ idx = 0)

(* An input of digits and separators only, longer than 15 characters, has  *)
(* been rejected.                                                          *)
C4_Witness ==
    /\ Returned
    /\ result = Err
    /\ Len(ipstr) > MaxLen
    /\ \A k \in 1..Len(ipstr) : ~IllegalChar(ipstr[k])

(* C5. Too many separators: an input with more than three separators is    *)
(* rejected with Err(InvalidAddrErr), and a separator met while the block  *)
(* count is already 4 fails the scan.                                      *)
C5_TooManySeparators ==
    /\ (Returned /\ NumDots(ipstr) > MaxBlocks - 1) => result = Err
    /\ (StoppedAtDot /\ block_count = MaxBlocks) => result = Err

(* The scan has stopped at a separator met in the fourth block, the block  *)
(* itself being a legal octet.                                             *)
C5_Witness ==
    /\ StoppedAtDot
    /\ block_count = MaxBlocks
    /\ ~EmptyBlock(block)
    /\ ~RangeCheckFails(block)
    /\ result = Err

(* C6. Outcome set: the call ends with Ok(true) or Err(InvalidAddrErr),    *)
(* never with Ok(false) and never with a panic (block[pos] = c is only     *)
(* executed with pos in 0..2); until it has returned it can take a step,   *)
(* and it never takes more characters than the input has.                  *)
C6_OutcomeSet ==
    /\ result \in {Running, OkTrue, Err}
    /\ result # OkFalse /\ result # Panic
    /\ Returned <=> result # Running
    /\ pos \in 0..BlockLen
    /\ idx <= Len(ipstr)
    /\ ~Returned => ENABLED Next

(* A fourth digit was met with the block full, and the call returned Err   *)
(* instead of writing past the block.                                      *)
C6_Witness ==
    /\ StoppedAtDigit
    /\ pos = BlockLen
    /\ result = Err

(* C7. An empty octet is invalid: an input that starts with a separator,   *)
(* has two separators in a row, or ends with a separator is rejected with  *)
(* Err(InvalidAddrErr).                                                    *)
C7_EmptyOctet ==
    (Returned /\ HasEmptyOctet(ipstr)) => result = Err

(* C8, as stated: a separator met with three digits in the block fails     *)
(* the scan exactly when the block denotes a number above 255; a block of  *)
(* one or two digits is never rejected by the range check.                 *)
SeparatorNext == HasNext /\ c = Dot

C8_AsStated ==
    [][ SeparatorNext =>
          IF block[BlockLen] # NUL
          THEN (result' = Err) <=> (BlockValue(block) > 255)
          ELSE ~RangeCheckFails(block) ]_vars

(* C8, amended: the same, for a separator met while fewer than four blocks *)
(* have been started: then a block of three digits fails the scan exactly  *)
(* when it denotes a number above 255, and a block of one or two digits    *)
(* does not fail it.                                                       *)
C8_RangeCheck ==
    [][ (SeparatorNext /\ block_count < MaxBlocks /\ ~EmptyBlock(block)) =>
          IF block[BlockLen] # NUL
          THEN (result' = Err) <=> (BlockValue(block) > 255)
          ELSE result' # Err ]_vars

(* The scan has stopped at the separator closing the block 256, before     *)
(* the fourth block.                                                       *)
C8_Witness ==
    /\ StoppedAtDot
    /\ block_count < MaxBlocks
    /\ block[BlockLen] # NUL
    /\ BlockValue(block) = 256
    /\ result = Err

(* C9. Leading zeros: when the range check of a block of three digits runs *)
(* at a separator, the first digit of the block is not '0', and no input   *)
(* with an octet written with a leading zero followed by further digits is *)
(* accepted.                                                               *)
C9_LeadingZeros ==
    /\ (SeparatorNext /\ ~TooManyBlocks(block_count) /\ block[BlockLen] # NUL) =>
           block[1] # Zero
    /\ (Returned /\ HasLeadingZeroOctet(ipstr)) => result = Err

(* C10. Scanner state: block_count is in [1,4], pos in [0,3], slot k of    *)
(* the block holds a digit exactly when k <= pos and is empty otherwise;   *)
(* a digit met while pos = 3 fails the scan, a digit met before that is    *)
(* stored at pos; a separator that passes resets the block to all-empty    *)
(* with pos = 0 and adds exactly 1 to block_count.                         *)
ScannerState ==
    /\ block_count \in 1..MaxBlocks
    /\ pos \in 0..BlockLen
    /\ \A k \in 1..BlockLen :
          IF k <= pos THEN is_ascii_digit(block[k]) ELSE block[k] = NUL

ScannerStep ==
    /\ (HasNext /\ is_ascii_digit(c) /\ pos = BlockLen) =>
           (result' = Err /\ UNCHANGED <<block, pos, block_count>>)
    /\ (HasNext /\ is_ascii_digit(c) /\ pos < BlockLen) =>
           /\ result' = Running
           /\ pos' = pos + 1
           /\ block' = [block EXCEPT ![pos + 1] = c]
           /\ block_count' = block_count
    /\ (SeparatorNext /\ result' # Err) =>
           /\ block' = [k \in 1..BlockLen |-> NUL]
           /\ pos' = 0
           /\ block_count' = block_count + 1

C10_ScannerState == []ScannerState /\ [][ScannerStep]_vars

(* The third separator has just been passed: the fourth block is empty.    *)
C10_Witness ==
    /\ pc = "scan"
    /\ idx > 0
    /\ ipstr[idx] = Dot
    /\ block_count = MaxBlocks
    /\ pos = 0
    /\ block = FreshBlock

===========================================================================
